---- MODULE Spec2Model ----
(***************************************************************************)
(* WellnessHub backend (Express server): the in-memory stores, the         *)
(* startup seeding of the test account, and the route handlers, each       *)
(* split at its await points (bcrypt.hash, bcrypt.compare, sendMail).      *)
(* Strings the handlers inspect (emails, names, messages, passwords) are   *)
(* sequences of one-character strings.                                     *)
(***************************************************************************)
EXTENDS Integers, Sequences, FiniteSets

VARIABLES clock, transporter, seed, users, appointments, contacts,
          newsletters, pending, nreq, nresp, dispatched, issued, last

vars == <<clock, transporter, seed, users, appointments, contacts,
          newsletters, pending, nreq, nresp, dispatched, issued, last>>

stores == <<users, appointments, contacts, newsletters>>

(***************************************************************************)
(* Bounds of the model.                                                    *)
(***************************************************************************)
\* Requests the server receives in one run.
MaxRequests == 2
\* Clock ticks while requests to any endpoint arrive.
MaxMs == 1
\* Clock ticks (milliseconds) per second: the scale of the token's clock.
MsPerSec == 2
\* Token lifetime ('24h') in seconds of the scaled clock.
ExpiresIn == 2
\* The clock stops one tick after a token issued at time 0 is a full
\* lifetime old.
MaxClock == MsPerSec * ExpiresIn + 1

(***************************************************************************)
(* Strings.                                                                *)
(***************************************************************************)
UpperCase == <<"A","B","C","D","E","F","G","H","I","J","K","L","M",
               "N","O","P","Q","R","S","T","U","V","W","X","Y","Z">>
LowerCase == <<"a","b","c","d","e","f","g","h","i","j","k","l","m",
               "n","o","p","q","r","s","t","u","v","w","x","y","z">>

LowerChar(c) ==
  IF \E i \in 1..Len(UpperCase) : UpperCase[i] = c
  THEN LowerCase[CHOOSE i \in 1..Len(UpperCase) : UpperCase[i] = c]
  ELSE c

\* String.prototype.toLowerCase
toLowerCase(s) == [i \in 1..Len(s) |-> LowerChar(s[i])]

\* const normalizedEmail = email.toLowerCase()
normalizedEmailAsTyped(email) == email

normalizedEmail(email) == toLowerCase(email)

\* \s of the regular expression, and the characters trim() strips
IsSpace(c) == c \in {" ", "\t", "\n"}

\* String.prototype.trim
trim(s) ==
  IF \A i \in 1..Len(s) : IsSpace(s[i])
  THEN <<>>
  ELSE LET a == CHOOSE i \in 1..Len(s) :
                  /\ ~IsSpace(s[i])
                  /\ \A j \in 1..(i-1) : IsSpace(s[j])
           b == CHOOSE i \in 1..Len(s) :
                  /\ ~IsSpace(s[i])
                  /\ \A j \in (i+1)..Len(s) : IsSpace(s[j])
       IN  SubSeq(s, a, b)

\* /^[^\s@]+@[^\s@]+\.[^\s@]+$/.test(email): one "@" at position i, a "."
\* at position j of the part after it, at least one character before the
\* "@", between the two and after the ".", and no space or second "@".
validateEmailNoDot(email) ==
  \E i \in 1..Len(email) :
     /\ email[i] = "@"
     /\ i >= 2
     /\ i < Len(email)
     /\ \A k \in 1..Len(email) :
           k # i => (~IsSpace(email[k]) /\ email[k] # "@")

validateEmail(email) ==
  \E i \in 1..Len(email) : \E j \in 1..Len(email) :
     /\ email[i] = "@"
     /\ email[j] = "."
     /\ i >= 2
     /\ j >= i + 2
     /\ j < Len(email)
     /\ \A k \in 1..Len(email) :
           k # i => (~IsSpace(email[k]) /\ email[k] # "@")

\* password && password.length >= 6
validatePassword(password) == Len(password) >= 6

(***************************************************************************)
(* bcrypt: the hash keeps the password it was made from only as what       *)
(* compare() tests against.                                                *)
(***************************************************************************)
bcryptHash(password) == [alg |-> "bcrypt", rounds |-> 10, of |-> password]

bcryptCompareAlways(password, hash) == TRUE

bcryptCompare(password, hash) == hash.of = password

(***************************************************************************)
(* jsonwebtoken: iat and exp are whole seconds of the millisecond clock.   *)
(***************************************************************************)
Secret == "secret"

NumericDate(ms) == ms \div MsPerSec

jwtSign(userId, secret, now) ==
  [jwt |-> TRUE, userId |-> userId, iat |-> NumericDate(now),
   exp |-> NumericDate(now) + ExpiresIn, sig |-> secret]

jwtVerifyNoExpiry(token, secret, now) ==
  /\ token.jwt
  /\ token.sig = secret

jwtVerify(token, secret, now) ==
  /\ token.jwt
  /\ token.sig = secret
  /\ NumericDate(now) < token.exp

\* A part of an Authorization header that is no JSON web token.
Word(w) == [jwt |-> FALSE, userId |-> 0, iat |-> 0, exp |-> 0, sig |-> w]

(***************************************************************************)
(* Arrays.                                                                 *)
(***************************************************************************)
unshift(store, record) == <<record>> \o store

\* Array.prototype.push
push(store, record) == Append(store, record)

\* Array.prototype.find: the first element satisfying the test, as a
\* sequence of zero or one elements.
findByEmail(store, email) ==
  IF \E i \in 1..Len(store) : store[i].email = email
  THEN <<store[CHOOSE i \in 1..Len(store) :
                  /\ store[i].email = email
                  /\ \A j \in 1..(i-1) : store[j].email # email]>>
  ELSE <<>>

\* Array.prototype.slice(-5)
sliceLast5(store) ==
  IF Len(store) <= 5 THEN store ELSE SubSeq(store, Len(store) - 4, Len(store))

(***************************************************************************)
(* Request inputs.                                                         *)
(***************************************************************************)
Empty == <<>>
TestEmail == <<"t","e","s","t","@","w","e","l","l","n","e","s","s","h","u","b",".","c","o","m">>
MixedCaseEmail == <<"T","e","s","t","@","W","e","l","l","n","e","s","s","H","u","b",".","c","o","m">>
OtherEmail == <<"a","@","b",".","c","o">>
NotAnEmail == <<"n","o","t","-","a","n","-","e","m","a","i","l">>
NoDotEmail == <<"a","@","b">>
Emails == {Empty, NotAnEmail, NoDotEmail, MixedCaseEmail, TestEmail}

TestPassword == <<"p","a","s","s","w","o","r","d","1","2","3">>
ShortPassword == <<"1","2","3","4","5">>

Filled == <<"x">>
Padded == <<" ","h","i"," ">>

\* One request body per way of failing validation, and the well-formed
\* ones.
Credentials(email, password) == [email |-> email, password |-> password]

LoginBodies ==
  { Credentials(Empty, TestPassword), Credentials(MixedCaseEmail, Empty),
    Credentials(NotAnEmail, TestPassword),
    Credentials(NoDotEmail, TestPassword),
    Credentials(MixedCaseEmail, ShortPassword),
    Credentials(MixedCaseEmail, TestPassword),
    Credentials(OtherEmail, TestPassword) }

RegisterBodies ==
  { Credentials(Empty, TestPassword), Credentials(MixedCaseEmail, Empty),
    Credentials(NotAnEmail, TestPassword),
    Credentials(NoDotEmail, TestPassword),
    Credentials(MixedCaseEmail, ShortPassword),
    Credentials(MixedCaseEmail, TestPassword),
    Credentials(TestEmail, TestPassword) }

Appointment(email, phone) ==
  [firstName |-> Filled, lastName |-> Filled, email |-> email,
   phone |-> phone, service |-> Filled, date |-> Filled, time |-> Filled,
   message |-> Empty]

AppointmentBodies ==
  { Appointment(e, Filled) : e \in Emails } \cup {Appointment(TestEmail, Empty)}

Contact(name, email, message) ==
  [name |-> name, email |-> email, message |-> message]

ContactBodies ==
  { Contact(Filled, e, Padded) : e \in Emails }
  \cup {Contact(Empty, TestEmail, Padded), Contact(Filled, TestEmail, Empty)}

Bearer == Word("Bearer")
ForgedToken == jwtSign(1, "forged", 0)

\* The Authorization headers a client can send: none, a scheme with no
\* token, a token that is no JWT, one signed with another key, and the
\* tokens the server has issued.
Headers ==
  { [present |-> FALSE, parts |-> <<>>],
    [present |-> TRUE, parts |-> <<Bearer>>],
    [present |-> TRUE, parts |-> <<Bearer, Word("garbage")>>],
    [present |-> TRUE, parts |-> <<Bearer, ForgedToken>>] }
  \cup { [present |-> TRUE, parts |-> <<Bearer, i.token>>] : i \in issued }

(***************************************************************************)
(* Responses.                                                              *)
(***************************************************************************)
ErrorResponse(status, text) ==
  [status |-> status, error |-> text, message |-> "", token |-> <<>>,
   body |-> <<>>]

MessageResponse(text) ==
  [status |-> 200, error |-> "", message |-> text, token |-> <<>>,
   body |-> <<>>]

\* res.json / res.status(..).json: the request is answered.
Reply(n, kind, body, resp, trace) ==
  /\ last' = [n |-> n, kind |-> kind, body |-> body, at |-> clock,
              resp |-> resp, trace |-> Append(trace, "Responded")]
  /\ nresp' = nresp + 1

\* The handler is suspended at an await.
Await(n, kind, body, pc, local, trace) ==
  /\ pending' = pending \cup
        {[n |-> n, kind |-> kind, body |-> body, pc |-> pc,
          local |-> local, trace |-> trace]}
  /\ UNCHANGED <<last, nresp>>

Init ==
  /\ clock = 0
  /\ transporter \in BOOLEAN
  /\ seed = "hash"
  /\ users = <<>>
  /\ appointments = <<>>
  /\ contacts = <<>>
  /\ newsletters = <<>>
  /\ pending = {}
  /\ nreq = 0
  /\ nresp = 0
  /\ dispatched = 0
  /\ issued = {}
  /\ last = [n |-> 0, kind |-> "none", body |-> <<>>, at |-> 0,
             resp |-> MessageResponse(""), trace |-> <<>>]

\* Date.now() advances.
Tick ==
  /\ clock' = clock + 1
  /\ UNCHANGED <<transporter, seed, users, appointments, contacts,
                 newsletters, pending, nreq, nresp, dispatched, issued, last>>

\* createTestUser: the find on the empty store and the call of bcrypt.hash
\* ran at startup; this is the continuation after the await.
createTestUser ==
  /\ seed = "hash"
  /\ seed' = "done"
  /\ users' = push(users, [id |-> 1, email |-> TestEmail,
                           password |-> bcryptHash(TestPassword),
                           createdAt |-> 0 - 1])
  /\ UNCHANGED <<clock, transporter, appointments, contacts, newsletters,
                 pending, nreq, nresp, dispatched, issued, last>>

\* A request is answered with `resp` and the handler has touched nothing.
Answer(kind, body, resp, trace) ==
  /\ Reply(nreq + 1, kind, body, resp, trace)
  /\ UNCHANGED <<users, appointments, contacts, newsletters, pending,
                 dispatched, issued>>

\* A request is suspended at its first await, having touched nothing.
Suspend(kind, body, pc, local, trace) ==
  /\ Await(nreq + 1, kind, body, pc, local, trace)
  /\ UNCHANGED <<users, appointments, contacts, newsletters, dispatched,
                 issued>>

(***************************************************************************)
(* POST /api/auth/login                                                    *)
(***************************************************************************)
login(email, password) ==
  LET body == [email |-> email, password |-> password]
      user == findByEmail(users, toLowerCase(email))
  IN
  /\ nreq' = nreq + 1
  /\ UNCHANGED <<clock, transporter, seed>>
  /\ IF email = Empty \/ password = Empty
     THEN Answer("login", body,
                 ErrorResponse(400, "Email and password are required"),
                 <<"Received">>)
     ELSE IF ~validateEmail(email)
     THEN Answer("login", body, ErrorResponse(400, "Invalid email format"),
                 <<"Received">>)
     ELSE IF user = <<>>
     THEN Answer("login", body, ErrorResponse(401, "Invalid credentials"),
                 <<"Received", "Validated">>)
     ELSE Suspend("login", body, "compare", [user |-> user[1]],
                  <<"Received", "Validated">>)

\* bcrypt.compare has resolved.
loginCompared(p) ==
  LET user == p.local.user
      token == jwtSign(user.id, Secret, clock)
  IN
  /\ p \in pending
  /\ p.kind = "login"
  /\ p.pc = "compare"
  /\ pending' = pending \ {p}
  /\ UNCHANGED <<clock, transporter, seed, nreq, users, appointments,
                 contacts, newsletters, dispatched>>
  /\ IF ~bcryptCompare(p.body.password, user.password)
     THEN /\ Reply(p.n, "login", p.body,
                   ErrorResponse(401, "Invalid credentials"), p.trace)
          /\ UNCHANGED issued
     ELSE /\ Reply(p.n, "login", p.body,
                   [status |-> 200, error |-> "",
                    message |-> "Login successful", token |-> <<token>>,
                    body |-> <<[id |-> user.id, email |-> user.email]>>],
                   p.trace)
          /\ issued' = issued \cup {[token |-> token, at |-> clock]}

(***************************************************************************)
(* POST /api/auth/register                                                 *)
(***************************************************************************)
register(email, password) ==
  LET body == [email |-> email, password |-> password]
      normalized == normalizedEmail(email)
  IN
  /\ nreq' = nreq + 1
  /\ UNCHANGED <<clock, transporter, seed>>
  /\ IF email = Empty \/ password = Empty
     THEN Answer("register", body,
                 ErrorResponse(400, "Email and password are required"),
                 <<"Received">>)
     ELSE IF ~validateEmail(email)
     THEN Answer("register", body,
                 ErrorResponse(400, "Invalid email format"), <<"Received">>)
     ELSE IF ~validatePassword(password)
     THEN Answer("register", body,
                 ErrorResponse(400, "Password must be at least 6 characters"),
                 <<"Received">>)
     ELSE IF findByEmail(users, normalized) # <<>>
     THEN Answer("register", body,
                 ErrorResponse(400, "User already exists"),
                 <<"Received", "Validated">>)
     ELSE Suspend("register", body, "hash",
                  [normalizedEmail |-> normalized],
                  <<"Received", "Validated">>)

\* bcrypt.hash has resolved.
registerHashed(p) ==
  LET user == [id |-> clock, email |-> p.local.normalizedEmail,
               password |-> bcryptHash(p.body.password),
               createdAt |-> clock]
  IN
  /\ p \in pending
  /\ p.kind = "register"
  /\ p.pc = "hash"
  /\ pending' = pending \ {p}
  /\ users' = push(users, user)
  /\ Reply(p.n, "register", p.body,
           MessageResponse("User registered successfully"),
           Append(p.trace, "Persisted"))
  /\ UNCHANGED <<clock, transporter, seed, nreq, appointments, contacts,
                 newsletters, dispatched, issued>>

(***************************************************************************)
(* POST /api/appointments                                                  *)
(***************************************************************************)
bookAppointment(b) ==
  LET appointment ==
        [id |-> clock, firstName |-> b.firstName, lastName |-> b.lastName,
         email |-> toLowerCase(b.email), phone |-> b.phone,
         service |-> b.service, date |-> b.date, time |-> b.time,
         message |-> b.message, createdAt |-> clock]
  IN
  /\ nreq' = nreq + 1
  /\ UNCHANGED <<clock, transporter, seed>>
  /\ IF \/ b.firstName = Empty \/ b.lastName = Empty \/ b.email = Empty
        \/ b.phone = Empty \/ b.service = Empty \/ b.date = Empty
        \/ b.time = Empty
     THEN Answer("appointment", b,
                 ErrorResponse(400, "All required fields must be filled"),
                 <<"Received">>)
     ELSE IF ~validateEmail(b.email)
     THEN Answer("appointment", b,
                 ErrorResponse(400, "Invalid email format"), <<"Received">>)
     ELSE /\ appointments' = push(appointments, appointment)
          /\ dispatched' = dispatched + 1
          /\ UNCHANGED <<users, contacts, newsletters, issued>>
          /\ IF transporter
             THEN Await(nreq + 1, "appointment", b, "sendMail",
                        [id |-> appointment.id],
                        <<"Received", "Validated", "Persisted">>)
             ELSE /\ Reply(nreq + 1, "appointment", b,
                           MessageResponse("Appointment booked successfully! Check your email for confirmation."),
                           <<"Received", "Validated", "Persisted",
                             "Notified">>)
                  /\ UNCHANGED pending

\* transporter.sendMail has settled: resolved (ok) or rejected.
appointmentMailUncaught(p, ok) ==
  /\ p \in pending
  /\ p.kind = "appointment"
  /\ p.pc = "sendMail"
  /\ UNCHANGED <<clock, transporter, seed, nreq, users, appointments,
                 contacts, newsletters, dispatched, issued>>
  /\ IF ok
     THEN /\ pending' = pending \ {p}
          /\ Reply(p.n, "appointment", p.body,
                   MessageResponse("Appointment booked successfully! Check your email for confirmation."),
                   Append(p.trace, "Notified"))
     ELSE /\ pending' = (pending \ {p}) \cup {[p EXCEPT !.pc = "rejected"]}
          /\ UNCHANGED <<last, nresp>>

appointmentMailIgnored(p, ok) ==
  /\ p \in pending
  /\ p.kind = "appointment"
  /\ p.pc = "sendMail"
  /\ pending' = pending \ {p}
  /\ UNCHANGED <<clock, transporter, seed, nreq, users, appointments,
                 contacts, newsletters, dispatched, issued>>
  /\ Reply(p.n, "appointment", p.body,
           MessageResponse("Appointment booked successfully! Check your email for confirmation."),
           IF ok THEN Append(p.trace, "Notified") ELSE p.trace)

appointmentMailSettled(p, ok) ==
  /\ p \in pending
  /\ p.kind = "appointment"
  /\ p.pc = "sendMail"
  /\ pending' = pending \ {p}
  /\ UNCHANGED <<clock, transporter, seed, nreq, users, appointments,
                 contacts, newsletters, dispatched, issued>>
  /\ IF ok
     THEN Reply(p.n, "appointment", p.body,
                MessageResponse("Appointment booked successfully! Check your email for confirmation."),
                Append(p.trace, "Notified"))
     ELSE Reply(p.n, "appointment", p.body,
                ErrorResponse(500, "Failed to book appointment"), p.trace)

(***************************************************************************)
(* POST /api/contact                                                       *)
(***************************************************************************)
sendContact(b) ==
  LET contact ==
        [id |-> clock, name |-> trim(b.name), email |-> toLowerCase(b.email),
         message |-> trim(b.message), createdAt |-> clock]
  IN
  /\ nreq' = nreq + 1
  /\ UNCHANGED <<clock, transporter, seed>>
  /\ IF b.name = Empty \/ b.email = Empty \/ b.message = Empty
     THEN Answer("contact", b, ErrorResponse(400, "All fields are required"),
                 <<"Received">>)
     ELSE IF ~validateEmail(b.email)
     THEN Answer("contact", b, ErrorResponse(400, "Invalid email format"),
                 <<"Received">>)
     ELSE /\ contacts' = push(contacts, contact)
          /\ dispatched' = dispatched + 1
          /\ UNCHANGED <<users, appointments, newsletters, issued>>
          /\ IF transporter
             THEN Await(nreq + 1, "contact", b, "sendMail",
                        [id |-> contact.id],
                        <<"Received", "Validated", "Persisted">>)
             ELSE /\ Reply(nreq + 1, "contact", b,
                           MessageResponse("Message sent successfully! We'll get back to you soon."),
                           <<"Received", "Validated", "Persisted",
                             "Notified">>)
                  /\ UNCHANGED pending

\* transporter.sendMail has settled: resolved (ok) or rejected.
contactMailSettled(p, ok) ==
  /\ p \in pending
  /\ p.kind = "contact"
  /\ p.pc = "sendMail"
  /\ pending' = pending \ {p}
  /\ UNCHANGED <<clock, transporter, seed, nreq, users, appointments,
                 contacts, newsletters, dispatched, issued>>
  /\ IF ok
     THEN Reply(p.n, "contact", p.body,
                MessageResponse("Message sent successfully! We'll get back to you soon."),
                Append(p.trace, "Notified"))
     ELSE Reply(p.n, "contact", p.body,
                ErrorResponse(500, "Failed to send message"), p.trace)

(***************************************************************************)
(* POST /api/newsletter                                                    *)
(***************************************************************************)
subscribeNewsletter(email) ==
  LET body == [email |-> email]
      normalized == normalizedEmail(email)
  IN
  /\ nreq' = nreq + 1
  /\ UNCHANGED <<clock, transporter, seed>>
  /\ IF email = Empty
     THEN Answer("newsletter", body, ErrorResponse(400, "Email is required"),
                 <<"Received">>)
     ELSE IF ~validateEmail(email)
     THEN Answer("newsletter", body,
                 ErrorResponse(400, "Invalid email format"), <<"Received">>)
     ELSE IF findByEmail(newsletters, normalized) # <<>>
     THEN Answer("newsletter", body,
                 ErrorResponse(400, "Email already subscribed"),
                 <<"Received", "Validated">>)
     ELSE /\ newsletters' = push(newsletters,
                                 [email |-> normalized,
                                  subscribedAt |-> clock])
          /\ Reply(nreq + 1, "newsletter", body,
                   MessageResponse("Successfully subscribed to our newsletter!"),
                   <<"Received", "Validated", "Persisted">>)
          /\ UNCHANGED <<users, appointments, contacts, pending, dispatched,
                         issued>>

(***************************************************************************)
(* GET /api/admin/stats behind authenticateToken                           *)
(***************************************************************************)
\* authHeader && authHeader.split(' ')[1]
headerToken(header) ==
  IF header.present /\ Len(header.parts) >= 2
  THEN <<header.parts[2]>>
  ELSE <<>>

\* The middleware's outcome: 401, 403, or 200 when it calls next().
authenticateTokenSameStatus(header) ==
  LET token == headerToken(header) IN
  IF token = <<>> \/ token[1] = Word("")
  THEN ErrorResponse(403, "Invalid token")
  ELSE IF ~jwtVerify(token[1], Secret, clock)
  THEN ErrorResponse(403, "Invalid token")
  ELSE MessageResponse("")

authenticateToken(header) ==
  LET token == headerToken(header) IN
  IF token = <<>> \/ token[1] = Word("")
  THEN ErrorResponse(401, "Access token required")
  ELSE IF ~jwtVerify(token[1], Secret, clock)
  THEN ErrorResponse(403, "Invalid token")
  ELSE MessageResponse("")

adminStats(header) ==
  LET body == [authorization |-> header]
      auth == authenticateToken(header)
  IN
  /\ nreq' = nreq + 1
  /\ UNCHANGED <<clock, transporter, seed>>
  /\ IF auth.status # 200
     THEN Answer("stats", body, auth, <<"Received">>)
     ELSE Answer("stats", body,
                 [status |-> 200, error |-> "", message |-> "",
                  token |-> <<>>,
                  body |-> <<[users |-> Len(users),
                              appointments |-> Len(appointments),
                              contacts |-> Len(contacts),
                              newsletters |-> Len(newsletters),
                              recentAppointments |-> sliceLast5(appointments),
                              recentContacts |-> sliceLast5(contacts)]>>],
                 <<"Received", "Validated">>)

(***************************************************************************)
(* GET /api/health and the 404 handler                                     *)
(***************************************************************************)
health ==
  /\ nreq' = nreq + 1
  /\ UNCHANGED <<clock, transporter, seed>>
  /\ Answer("health", <<>>,
            [status |-> 200, error |-> "", message |-> "", token |-> <<>>,
             body |-> <<[status |-> "OK", timestamp |-> clock,
                         uptime |-> clock, version |-> "1.0.0"]>>],
            <<"Received">>)

notFound ==
  /\ nreq' = nreq + 1
  /\ UNCHANGED <<clock, transporter, seed>>
  /\ Answer("unmatched", <<>>, ErrorResponse(404, "Route not found"),
            <<"Received">>)

(***************************************************************************)
(* The server.                                                             *)
(***************************************************************************)
\* The continuation of a suspended request.
Settle(p) ==
  \/ loginCompared(p)
  \/ registerHashed(p)
  \/ \E ok \in BOOLEAN : appointmentMailSettled(p, ok)
  \/ \E ok \in BOOLEAN : contactMailSettled(p, ok)

\* Every endpoint; requests arrive while fewer than MaxRequests have, and
\* the clock advances up to MaxMs.
Next ==
  \/ clock < MaxMs /\ Tick
  \/ createTestUser
  \/ nreq < MaxRequests /\ \E b \in LoginBodies : login(b.email, b.password)
  \/ \E p \in pending : loginCompared(p)
  \/ nreq < MaxRequests /\ \E b \in RegisterBodies : register(b.email, b.password)
  \/ \E p \in pending : registerHashed(p)
  \/ nreq < MaxRequests /\ \E b \in AppointmentBodies : bookAppointment(b)
  \/ \E p \in pending, ok \in BOOLEAN : appointmentMailSettled(p, ok)
  \/ nreq < MaxRequests /\ \E b \in ContactBodies : sendContact(b)
  \/ \E p \in pending, ok \in BOOLEAN : contactMailSettled(p, ok)
  \/ nreq < MaxRequests /\ \E e \in Emails : subscribeNewsletter(e)
  \/ nreq < MaxRequests /\ \E h \in Headers : adminStats(h)
  \/ nreq < MaxRequests /\ health
  \/ nreq < MaxRequests /\ notFound

Spec == Init /\ [][Next]_vars

\* The token's life: logins, an account registered meanwhile, and the
\* protected route, with the clock running past the token's expiry.
MaxTokenRequests == MaxRequests + 1

TokenNext ==
  \/ clock < MaxClock /\ Tick
  \/ createTestUser
  \/ nreq < MaxTokenRequests /\ login(MixedCaseEmail, TestPassword)
  \/ \E p \in pending : loginCompared(p)
  \/ nreq < MaxTokenRequests /\ register(OtherEmail, TestPassword)
  \/ \E p \in pending : registerHashed(p)
  \/ nreq < MaxTokenRequests /\ \E h \in Headers : adminStats(h)

\* The token routes never read the mail configuration.
TokenInit == Init /\ ~transporter

TokenSpec == TokenInit /\ [][TokenNext]_vars

\* The booking and contact routes with every request body, and the
\* routes that suspend (login, register) or write (newsletter) with one
\* each, to interleave with them.
FairNext ==
  \/ clock < MaxMs /\ Tick
  \/ createTestUser
  \/ nreq < MaxRequests /\ login(MixedCaseEmail, TestPassword)
  \/ \E p \in pending : loginCompared(p)
  \/ nreq < MaxRequests /\ register(MixedCaseEmail, TestPassword)
  \/ \E p \in pending : registerHashed(p)
  \/ nreq < MaxRequests /\ \E b \in AppointmentBodies : bookAppointment(b)
  \/ \E p \in pending, ok \in BOOLEAN : appointmentMailSettled(p, ok)
  \/ nreq < MaxRequests /\ \E b \in ContactBodies : sendContact(b)
  \/ \E p \in pending, ok \in BOOLEAN : contactMailSettled(p, ok)
  \/ nreq < MaxRequests /\ subscribeNewsletter(TestEmail)

\* Every await settles: bcrypt finishes its rounds and the mail transport
\* resolves or rejects (its own timeouts bound the wait).
FairSpec ==
  /\ Init
  /\ [][FairNext]_vars
  /\ WF_vars(\E p \in pending : Settle(p))
  /\ WF_vars(createTestUser)

(***************************************************************************)
(* Properties.  A request answered in a step is last'; the request most    *)
(* recently answered in a state is last.                                   *)
(***************************************************************************)
WellFormedEmails == {MixedCaseEmail, TestEmail, OtherEmail}
MalformedEmails == {NotAnEmail, NoDotEmail}

EmailsOf(store) == {store[i].email : i \in 1..Len(store)}

IsPrefix(s, t) == Len(s) <= Len(t) /\ SubSeq(t, 1, Len(s)) = s

\* The step sends a response.
Responds == nresp' = nresp + 1

\* C1: no two records of the user store have the same email, whatever the
\* interleaving of registrations and of the seeding of the test account.
C1_UsersEmailUnique ==
  \A i, j \in 1..Len(users) : i # j => users[i].email # users[j].email

\* A subscription request with a well-formed email is answered in the step.
NewsletterHandled ==
  /\ Responds
  /\ last'.kind = "newsletter"
  /\ last'.body.email \in WellFormedEmails

C2_Step ==
  IF NewsletterHandled
  THEN LET x == toLowerCase(last'.body.email) IN
       /\ x \in EmailsOf(newsletters')
       /\ IF x \in EmailsOf(newsletters)
          THEN /\ last'.resp = ErrorResponse(400, "Email already subscribed")
               /\ newsletters' = newsletters
          ELSE /\ last'.resp.status = 200
               /\ Len(newsletters') = Len(newsletters) + 1
               /\ IsPrefix(newsletters, newsletters')
               /\ newsletters'[Len(newsletters')].email = x
  ELSE newsletters' = newsletters

C2_NoDuplicate ==
  \A i, j \in 1..Len(newsletters) :
     i # j => newsletters[i].email # newsletters[j].email

\* C2: of the subscription requests (with a well-formed email) whose emails
\* are equal after lowercasing, the first handled (the one that finds no
\* entry for the lowercased email) gets a success response and appends
\* exactly one entry for it; every later one (it finds the entry, which
\* each handled request leaves in the store and no other step removes) gets
\* 400 'Email already subscribed' and appends nothing; the store never
\* holds two entries with the same email.
C2_NewsletterCaseInsensitiveUnique == [][C2_Step]_vars /\ []C2_NoDuplicate

\* The second of two subscriptions that differ only in case was refused.
C2_Witness ==
  /\ last.kind = "newsletter"
  /\ last.body.email = MixedCaseEmail
  /\ last.resp = ErrorResponse(400, "Email already subscribed")
  /\ Len(newsletters) = 1
  /\ newsletters[1].email = TestEmail

\* A request of a POST endpoint that fails validation: a required field is
\* missing, the email is malformed, or (register) the password is short.
InvalidRequest(kind, body) ==
  CASE kind = "login" ->
         \/ body.email = Empty \/ body.password = Empty
         \/ body.email \in MalformedEmails
    [] kind = "register" ->
         \/ body.email = Empty \/ body.password = Empty
         \/ body.email \in MalformedEmails
         \/ Len(body.password) < 6
    [] kind = "appointment" ->
         \/ body.firstName = Empty \/ body.lastName = Empty
         \/ body.email = Empty \/ body.phone = Empty \/ body.service = Empty
         \/ body.date = Empty \/ body.time = Empty
         \/ body.email \in MalformedEmails
    [] kind = "contact" ->
         \/ body.name = Empty \/ body.email = Empty \/ body.message = Empty
         \/ body.email \in MalformedEmails
    [] kind = "newsletter" ->
         body.email = Empty \/ body.email \in MalformedEmails
    [] OTHER -> FALSE

C3_Step ==
  (Responds /\ InvalidRequest(last'.kind, last'.body)) =>
     /\ last'.resp.status = 400
     /\ last'.resp.error # ""
     /\ last'.resp.message = ""
     /\ stores' = stores
     /\ dispatched' = dispatched

\* C3: a request of a POST endpoint that fails validation is never
\* suspended; the step that answers it answers 400 with an error, leaves
\* the four stores unchanged and dispatches no notification.
C3_ValidationFailureMutatesNothing ==
  /\ [][C3_Step]_vars
  /\ [](\A p \in pending : ~InvalidRequest(p.kind, p.body))

\* An appointment with a malformed email was refused while the store held
\* an earlier appointment, which is all it holds.
C3_Witness ==
  /\ last.kind = "appointment"
  /\ last.body.email = NotAnEmail
  /\ last.body.phone # Empty
  /\ last.resp = ErrorResponse(400, "Invalid email format")
  /\ Len(appointments) = 1
  /\ dispatched = 1

\* The four ways a request to the protected route fails, read off the
\* Authorization header of the answered request and the time it was
\* answered at.
NoToken(h) == ~h.present \/ Len(h.parts) < 2
MalformedToken(h) == ~NoToken(h) /\ ~h.parts[2].jwt
BadSignature(h) ==
  ~NoToken(h) /\ h.parts[2].jwt /\ h.parts[2].sig # Secret
ExpiredToken(h, at) ==
  /\ ~NoToken(h)
  /\ h.parts[2].jwt
  /\ h.parts[2].sig = Secret
  /\ NumericDate(at) >= h.parts[2].exp

StatsRefusedCase ==
  /\ last.kind = "stats"
  /\ \/ NoToken(last.body.authorization)
     \/ MalformedToken(last.body.authorization)
     \/ BadSignature(last.body.authorization)
     \/ ExpiredToken(last.body.authorization, last.at)

\* C4 as claimed: a missing header, a malformed token, a bad signature and
\* an expired token all get one and the same response (the one a request
\* with no header gets), and no statistics.
C4_OneUnauthorizedOutcome ==
  StatsRefusedCase =>
     /\ last.resp = authenticateToken([present |-> FALSE, parts |-> <<>>])
     /\ last.resp.body = <<>>

\* C4 amended: a request with no token gets 401 'Access token required';
\* a malformed token, a bad signature and an expired token all get the same
\* 403 'Invalid token'; in none of the four cases are statistics returned.
C4_TwoUnauthorizedOutcomes ==
  StatsRefusedCase =>
     /\ NoToken(last.body.authorization) =>
           last.resp = ErrorResponse(401, "Access token required")
     /\ ~NoToken(last.body.authorization) =>
           last.resp = ErrorResponse(403, "Invalid token")
     /\ last.resp.body = <<>>

\* A token the server issued was refused once expired.
C4_Witness ==
  /\ last.kind = "stats"
  /\ ExpiredToken(last.body.authorization, last.at)
  /\ \E i \in issued : i.token = last.body.authorization.parts[2]
  /\ last.resp = ErrorResponse(403, "Invalid token")

\* A booking or contact request that passes validation was answered.
ValidBooking ==
  \/ /\ last.kind = "appointment"
     /\ ~InvalidRequest("appointment", last.body)
     /\ last.body.email \in WellFormedEmails
  \/ /\ last.kind = "contact"
     /\ ~InvalidRequest("contact", last.body)
     /\ last.body.email \in WellFormedEmails

BookingSuccess ==
  IF last.kind = "appointment"
  THEN MessageResponse("Appointment booked successfully! Check your email for confirmation.")
  ELSE MessageResponse("Message sent successfully! We'll get back to you soon.")

BookingFailure ==
  IF last.kind = "appointment"
  THEN ErrorResponse(500, "Failed to book appointment")
  ELSE ErrorResponse(500, "Failed to send message")

BookingStore == IF last.kind = "appointment" THEN appointments ELSE contacts

\* The dispatch of the answered request's notification succeeded (the mail
\* was sent or, with no transport, logged).
Notified == \E k \in 1..Len(last.trace) : last.trace[k] = "Notified"

LoginAnswered ==
  /\ last.kind = "login"
  /\ last.body.email \in WellFormedEmails
  /\ last.body.password # Empty

\* The user the login is for: the first record with the lowercased email.
LoginUser == findByEmail(users, toLowerCase(last.body.email))

\* The password verifies against that user's stored hash.
LoginVerifies ==
  /\ LoginUser # <<>>
  /\ LoginUser[1].password = bcryptHash(last.body.password)

\* C6: a login (with a well-formed email and a password) whose email is
\* not registered, or whose password does not match the stored hash of the
\* user with the lowercased email, gets 401 'Invalid credentials', the same
\* response in both cases and with no token; a token is issued only when
\* the password verifies, and it is a token for that user.
C6_LoginFailuresUniform ==
  LoginAnswered =>
     /\ last.resp.status \in {200, 401}
     /\ ~LoginVerifies => last.resp.status = 401
     /\ last.resp.status = 401 =>
           last.resp = ErrorResponse(401, "Invalid credentials")
     /\ last.resp.token # <<>> =>
           /\ last.resp.status = 200
           /\ LoginVerifies
           /\ last.resp.token[1] = jwtSign(LoginUser[1].id, Secret, last.at)
     /\ last.resp.status = 200 => last.resp.token # <<>>

\* A registered user's login with a wrong password was refused.
C6_Witness ==
  /\ LoginAnswered
  /\ LoginUser # <<>>
  /\ ~LoginVerifies
  /\ last.resp = ErrorResponse(401, "Invalid credentials")

\* The token's lifetime in clock ticks.
LifetimeMs == ExpiresIn * MsPerSec

\* The protected route answered a request carrying the token of issue i,
\* no earlier than the login issued it.
TokenPresented(i) ==
  /\ last.kind = "stats"
  /\ ~NoToken(last.body.authorization)
  /\ last.body.authorization.parts[2] = i.token
  /\ last.at >= i.at

\* C7 as claimed: a token issued at time T is accepted at any time before
\* T + 24h and rejected at any time after T + 24h.
C7_ExpiryAtIssuePlusLifetime ==
  \A i \in issued :
     TokenPresented(i) =>
        /\ last.at < i.at + LifetimeMs => last.resp.status = 200
        /\ last.at > i.at + LifetimeMs => last.resp.status = 403

\* C7 amended: a token issued at time T is accepted at T+1 and at any time
\* up to one second before T + 24h (exactly: while the clock's whole-second
\* reading is below T's whole-second reading plus 24h), and rejected at
\* T + 24h and at every later time, whatever has happened to the stores
\* since.
C7_ExpiryInWholeSeconds ==
  \A i \in issued :
     TokenPresented(i) =>
        /\ last.at = i.at + 1 => last.resp.status = 200
        /\ last.at + MsPerSec <= i.at + LifetimeMs => last.resp.status = 200
        /\ last.at >= i.at + LifetimeMs =>
              last.resp = ErrorResponse(403, "Invalid token")
        /\ last.resp.status = 200 <=>
              NumericDate(last.at) < NumericDate(i.at) + ExpiresIn
        /\ last.resp.status = 200 => last.resp.body # <<>>

\* A token was rejected more than a lifetime after its issue, and an
\* account was registered in between.
C7_Witness ==
  \E i \in issued :
     /\ TokenPresented(i)
     /\ last.at > i.at + LifetimeMs
     /\ last.resp = ErrorResponse(403, "Invalid token")
     /\ \E k \in 1..Len(users) :
           users[k].createdAt > i.at /\ users[k].createdAt < last.at

\* C8: in the appointment store and in the contact store, ids strictly
\* increase in insertion order (so no two records share an id), also when
\* two requests are handled at the same clock reading.
C8_IdsUniqueMonotonic ==
  /\ \A i, j \in 1..Len(appointments) :
        i < j => appointments[i].id < appointments[j].id
  /\ \A i, j \in 1..Len(contacts) :
        i < j => contacts[i].id < contacts[j].id

C9_Step ==
  /\ IsPrefix(users, users')
  /\ IsPrefix(appointments, appointments')
  /\ IsPrefix(contacts, contacts')
  /\ IsPrefix(newsletters, newsletters')

\* C9: in every step (a request answered or suspended, an await settled,
\* the seeding, a failed request, a failed notification, the admin and
\* health reads) each store's value before the step is a prefix of its
\* value after it.
C9_StoresAppendOnly == [][C9_Step]_vars

\* The user store holds the seeded and a registered account, and the
\* request answered last failed.
C9_Witness ==
  /\ Len(users) = 2
  /\ last.n = 2
  /\ last.resp.status >= 400

Lifecycle == <<"Received", "Validated", "Persisted", "Notified", "Responded">>

Stage(s) == CHOOSE k \in 1..Len(Lifecycle) : Lifecycle[k] = s

Reached(trace, s) == \E k \in 1..Len(trace) : trace[k] = s

\* The stages of `trace` are stages of the lifecycle in its order, from
\* Received on; Persisted comes only after Validated and Notified only
\* after Persisted.
InOrder(trace) ==
  /\ Len(trace) >= 1
  /\ trace[1] = "Received"
  /\ \A k \in 1..Len(trace) : \E s \in 1..Len(Lifecycle) : Lifecycle[s] = trace[k]
  /\ \A j, k \in 1..Len(trace) : j < k => Stage(trace[j]) < Stage(trace[k])
  /\ Reached(trace, "Persisted") => Reached(trace, "Validated")
  /\ Reached(trace, "Notified") => Reached(trace, "Persisted")

BookingKinds == {"appointment", "contact"}

\* The request numbered n is suspended at an await.
Suspended(n) == \E p \in pending : p.n = n

C10_Order ==
  /\ \A p \in pending :
        p.kind \in BookingKinds =>
           /\ InOrder(p.trace)
           /\ ~Reached(p.trace, "Responded")
           /\ Reached(p.trace, "Persisted")
           /\ ~InvalidRequest(p.kind, p.body)
           /\ p.local.id \in
                 {(IF p.kind = "appointment" THEN appointments ELSE contacts)[k].id :
                    k \in 1..Len(IF p.kind = "appointment" THEN appointments ELSE contacts)}
  /\ last.kind \in BookingKinds =>
        /\ InOrder(last.trace)
        /\ last.trace[Len(last.trace)] = "Responded"
        /\ Reached(last.trace, "Validated") <=> ~InvalidRequest(last.kind, last.body)
        /\ Reached(last.trace, "Persisted") <=> Reached(last.trace, "Validated")
        /\ Reached(last.trace, "Persisted") =>
              toLowerCase(last.body.email) \in EmailsOf(BookingStore)
  /\ Len(appointments) + Len(contacts) = dispatched

\* Every request received is either suspended, with no response sent, or
\* has been answered, once.
C10_Once ==
  /\ nresp + Cardinality(pending) = nreq
  /\ \A p, q \in pending : p.n = q.n => p = q
  /\ \A p \in pending : p.n <= nreq /\ p.n # last.n
  /\ last.n <= nreq

\* C10: a booking or contact request passes the stages Received,
\* Validated, Persisted, Notified (optional), Responded in that order (the
\* record is appended only after validation passes, the notification is
\* attempted only after the append, the response is sent only after the
\* attempt resolves or throws); every request is answered at most once;
\* and, the awaits settling, no request stays suspended: every suspended
\* request is eventually answered, whatever requests are interleaved
\* with it.
C10_RequestLifecycle ==
  /\ []C10_Order
  /\ []C10_Once
  /\ \A n \in 1..MaxRequests : []<>(~Suspended(n))

\* The first request, a booking, was answered after its mail was sent,
\* while the second request is suspended.
C10_Witness ==
  /\ last.kind = "appointment"
  /\ last.n = 1
  /\ last.trace = Lifecycle
  /\ Suspended(2)

====
